---- MODULE Spec2Model ----
(***************************************************************************)
(* Model of mark-files (src/src/mark-files.cpp): main(), extract_infos()   *)
(* and the worker threads running extract_info().                          *)
(*                                                                         *)
(* The main thread and every worker thread are processes with a program    *)
(* counter; the std::mutex, the pending queue, the result table and the    *)
(* progress bar are shared variables.  The file system (the probed files,  *)
(* the json file read by the restore step, the timestamp writer) is the    *)
(* environment: what a call into it returns is chosen when the call is     *)
(* made.                                                                   *)
(***************************************************************************)
EXTENDS Integers, Sequences, FiniteSets, TLC

(* ------------------------------ bounds -------------------------------- *)

\* number of distinct file paths the directory can hold
NumPaths == 2

\* largest value std::thread::hardware_concurrency() is taken to report
MaxCpu == 2

(* ------------------------------ domains ------------------------------- *)

\* file names, in the order std::map<std::string, ...> keeps its keys
PathNames == <<"a.txt", "b.txt", "c.txt", "d.txt">>

Paths == {PathNames[i] : i \in 1..NumPaths}

\* fingerprints a probe can compute / the saved database can hold
DiskShas == {"X"}
Shas == {"X", "Y"}

\* epoch seconds
Times == {100, 200}

\* struct file_infos
FileInfos == [sha : Shas, ctime : Times, mtime : Times]

\* what the file system currently holds for a path
DiskInfos == [sha : DiskShas, ctime : Times, mtime : Times]

\* a file nothing has read yet: what it holds is fixed by its first probe
Unread == [unread |-> TRUE]

\* value-initialised struct file_infos (empty sha, ctime = 0, mtime = 0)
DefaultInfos == [sha |-> "", ctime |-> 0, mtime |-> 0]

\* no entry for that key in the std::map
Absent == [absent |-> TRUE]

\* the output file has not been opened for writing by this run
NotWritten == [opened |-> FALSE]

\* no owner of the std::mutex (worker ids start at 1)
NoOwner == 0

\* int ret; before any assignment
NoRet == <<>>

\* json saved_db; before any assignment, or after parsing nothing
JsonNull == [kind |-> "null"]

\* no path held in the worker's local variable
NoPath == ""

\* worker thread ids: nb_threads <= min(files.size(), max_cpu)
Workers == 1..(IF NumPaths < MaxCpu THEN NumPaths ELSE MaxCpu)

VARIABLES
  pc,           \* position of the main thread
  ret,          \* main's return value: <<v>> once assigned
  restore,      \* --restore flag
  sys_mutex,    \* TRUE while the lock_guard on win::system_mutex is alive
  disk,         \* the file system: path -> sha/ctime/mtime of the file
  all_files,    \* result of files::get_files
  files,        \* std::queue of pending paths
  files_infos,  \* std::map path -> file_infos (Absent: no entry)
  ticks,        \* progress_bar counter of the worker pool
  mutex,        \* owner of the std::mutex (NoOwner: unlocked)
  nb_threads,   \* size of the threads vector
  next_thread,  \* index of the next thread to start / to join
  wpc,          \* position of each worker thread
  wfile,        \* worker local: file
  winfo,        \* worker local: file_hash and file_info
  probe_failed, \* paths whose get_stat/get_hash failed (history)
  probed,       \* what get_stat/get_hash returned for each path (history)
  saved_db,     \* json value parsed from the output file
  to_update,    \* vector of restorations
  upd_idx,      \* position of the restore loop in to_update
  writes,       \* calls made to files::set_stat, in order (history)
  write_failed, \* paths whose files::set_stat failed (history)
  out_file,     \* content written to the output file by this run
  path_exists,  \* result of std::filesystem::exists(path) ("unchecked" before)
  sys_acquired, \* number of times the system mutex was locked (history)
  io_pc,        \* position of the write-then-reload run of the output file
  io_infos,     \* the files_infos map handed to the writer
  content,      \* std::string content streamed to the output file
  io_db,        \* json value json::parse returns for that file
  io_loaded,    \* fields read from the entries that pass the validity test
  cam_pc,       \* position of each process that uses a CrossAppMutex
  m_mutex,      \* CrossAppMutex::m_mutex of each process: TRUE for a handle
  m_owned,      \* CrossAppMutex::m_owned of each process
  k_handles,    \* processes with an open handle to the named mutex
  k_owner,      \* process whose thread owns the named mutex (NoOwner: free)
  k_count,      \* number of ownerships the owner has to give back
  k_abandoned   \* the last owner ended without releasing the mutex

vars == <<pc, ret, restore, sys_mutex, disk, all_files, files, files_infos,
          ticks, mutex, nb_threads, next_thread, wpc, wfile, winfo,
          probe_failed, probed, saved_db, to_update, upd_idx, writes, write_failed,
          out_file, path_exists, sys_acquired,
          io_pc, io_infos, content, io_db, io_loaded,
          cam_pc, m_mutex, m_owned, k_handles, k_owner, k_count, k_abandoned>>

hist_vars == <<path_exists, sys_acquired>>
io_vars == <<io_pc, io_infos, content, io_db, io_loaded>>
cam_vars == <<cam_pc, m_mutex, m_owned, k_handles, k_owner, k_count, k_abandoned>>
side_vars == <<io_vars, cam_vars>>
prog_vars == <<pc, ret, restore, sys_mutex, disk, all_files, files, files_infos,
               ticks, mutex, nb_threads, next_thread, wpc, wfile, winfo,
               probe_failed, probed, saved_db, to_update, upd_idx, writes,
               write_failed, out_file, path_exists, sys_acquired>>
main_vars == <<pc, ret, sys_mutex>>
pool_vars == <<files, files_infos, ticks, mutex, wpc, wfile, winfo, probe_failed, probed>>
spawn_vars == <<all_files, nb_threads, next_thread>>
restore_vars == <<saved_db, to_update, upd_idx, writes, write_failed>>

(* ------------------------------ helpers ------------------------------- *)

Min(a, b) == IF a < b THEN a ELSE b

RECURSIVE SeqOfSet(_, _)
\* the paths of S in key order, scanning PathNames from index i
SeqOfSet(S, i) ==
  IF i > Len(PathNames) THEN <<>>
  ELSE IF PathNames[i] \in S THEN <<PathNames[i]>> \o SeqOfSet(S, i + 1)
  ELSE SeqOfSet(S, i + 1)

\* keys of the result table
Keys(infos) == {p \in Paths : infos[p] # Absent}

MainInit ==
  /\ pc = "m_exists"
  /\ ret = NoRet
  /\ restore \in BOOLEAN
  /\ sys_mutex = FALSE
  /\ disk = [p \in Paths |-> Unread]
  /\ all_files = <<>>
  /\ files = <<>>
  /\ files_infos = [p \in Paths |-> Absent]
  /\ ticks = 0
  /\ mutex = NoOwner
  /\ nb_threads = 0
  /\ next_thread = 1
  /\ wpc = [w \in Workers |-> "w_none"]
  /\ wfile = [w \in Workers |-> NoPath]
  /\ winfo = [w \in Workers |-> DefaultInfos]
  /\ probe_failed = {}
  /\ probed = [p \in Paths |-> Unread]
  /\ saved_db = JsonNull
  /\ to_update = <<>>
  /\ upd_idx = 1
  /\ writes = <<>>
  /\ write_failed = {}
  /\ out_file = NotWritten
  /\ path_exists = "unchecked"
  /\ sys_acquired = 0

\* no write-then-reload run is in progress
IoIdle ==
  /\ io_pc = "io_none"
  /\ io_infos = <<>>
  /\ content = <<>>
  /\ io_db = JsonNull
  /\ io_loaded = {}

(* ------------------- extract_info: the worker threads ----------------- *)

\* mutant: the lock is taken without waiting for its owner to release it
MutexFree_NoWait == TRUE

\* std::lock_guard<std::mutex> constructor returns only when the mutex is free
MutexFree == mutex = NoOwner

\* a worker runs as long as the process has not been terminated
Running(w, at) == pc # "m_terminated" /\ wpc[w] = at

\* line 79: lock_guard lock(mutex) of the first critical section
TakeLock(w) ==
  /\ Running(w, "w_lock1")
  /\ MutexFree
  /\ mutex' = w
  /\ wpc' = [wpc EXCEPT ![w] = "w_empty"]
  /\ UNCHANGED <<main_vars, restore, side_vars, hist_vars, disk, spawn_vars, files, files_infos,
                 ticks, wfile, winfo, probe_failed, probed, restore_vars, out_file>>

\* mutant: a worker that finds the queue empty tries again instead of leaving
TestEmpty_Retry(w) ==
  /\ Running(w, "w_empty")
  /\ IF files = <<>>
       THEN /\ wpc' = [wpc EXCEPT ![w] = "w_lock1"]
            /\ mutex' = NoOwner
       ELSE /\ wpc' = [wpc EXCEPT ![w] = "w_front"]
            /\ mutex' = mutex
  /\ UNCHANGED <<main_vars, restore, side_vars, hist_vars, disk, spawn_vars, files, files_infos,
                 ticks, wfile, winfo, probe_failed, probed, restore_vars, out_file>>

\* lines 80-81: if (files.empty()) break;  (the lock_guard is released on break)
TestEmpty(w) ==
  /\ Running(w, "w_empty")
  /\ IF files = <<>>
       THEN /\ wpc' = [wpc EXCEPT ![w] = "w_done"]
            /\ mutex' = NoOwner
       ELSE /\ wpc' = [wpc EXCEPT ![w] = "w_front"]
            /\ mutex' = mutex
  /\ UNCHANGED <<main_vars, restore, side_vars, hist_vars, disk, spawn_vars, files, files_infos,
                 ticks, wfile, winfo, probe_failed, probed, restore_vars, out_file>>

\* line 82: file = files.front();
Front(w) ==
  /\ Running(w, "w_front")
  /\ files # <<>>
  /\ wfile' = [wfile EXCEPT ![w] = Head(files)]
  /\ wpc' = [wpc EXCEPT ![w] = "w_pop"]
  /\ UNCHANGED <<main_vars, restore, side_vars, hist_vars, disk, spawn_vars, files, files_infos,
                 ticks, mutex, winfo, probe_failed, probed, restore_vars, out_file>>

\* mutant: the front element is read but not removed
PopFront_Keep(q) == q

\* line 83: files.pop()
PopFront(q) == Tail(q)

\* lines 83-84: files.pop(); and the end of the lock_guard's scope
Pop(w) ==
  /\ Running(w, "w_pop")
  /\ files # <<>>
  /\ files' = PopFront(files)
  /\ mutex' = NoOwner
  /\ wpc' = [wpc EXCEPT ![w] = "w_probe"]
  /\ UNCHANGED <<main_vars, restore, side_vars, hist_vars, disk, spawn_vars, files_infos,
                 ticks, wfile, winfo, probe_failed, probed, restore_vars, out_file>>

\* lines 87-88: files::get_stat(file) and files::get_hash(file) succeed
ProbeOk(w) ==
  /\ Running(w, "w_probe")
  /\ \E info \in DiskInfos :
       /\ disk[wfile[w]] \in {Unread, info}
       /\ disk' = [disk EXCEPT ![wfile[w]] = info]
       /\ winfo' = [winfo EXCEPT ![w] = info]
       /\ probed' = [probed EXCEPT ![wfile[w]] = info]
  /\ wpc' = [wpc EXCEPT ![w] = "w_lock2"]
  /\ UNCHANGED <<main_vars, restore, side_vars, hist_vars, spawn_vars, files, files_infos,
                 ticks, mutex, wfile, probe_failed, restore_vars, out_file>>

\* lines 87-88: get_stat or get_hash fails by throwing.  extract_info has no
\* handler, the exception leaves the thread function: std::terminate.  The
\* process ends without unwinding main; the system gives up the ownership
\* the dead process had of the system mutex.
ProbeThrows(w) ==
  /\ Running(w, "w_probe")
  /\ probe_failed' = probe_failed \cup {wfile[w]}
  /\ pc' = "m_terminated"
  /\ sys_mutex' = FALSE
  /\ UNCHANGED <<ret, restore, side_vars, hist_vars, disk, spawn_vars, files, files_infos,
                 ticks, mutex, wpc, wfile, winfo, probed, restore_vars, out_file>>

\* lines 87-88: get_stat or get_hash fails without throwing: the worker goes
\* on with whatever was returned (an empty hash, a zeroed stat).
ProbeReturnsDefault(w) ==
  /\ Running(w, "w_probe")
  /\ probe_failed' = probe_failed \cup {wfile[w]}
  /\ winfo' = [winfo EXCEPT ![w] = DefaultInfos]
  /\ probed' = [probed EXCEPT ![wfile[w]] = DefaultInfos]
  /\ wpc' = [wpc EXCEPT ![w] = "w_lock2"]
  /\ UNCHANGED <<main_vars, restore, side_vars, hist_vars, disk, spawn_vars, files, files_infos,
                 ticks, mutex, wfile, restore_vars, out_file>>

\* line 92: lock_guard lock(mutex) of the second critical section
PublishLock(w) ==
  /\ Running(w, "w_lock2")
  /\ MutexFree
  /\ mutex' = w
  /\ wpc' = [wpc EXCEPT ![w] = "w_insert"]
  /\ UNCHANGED <<main_vars, restore, side_vars, hist_vars, disk, spawn_vars, files, files_infos,
                 ticks, wfile, winfo, probe_failed, probed, restore_vars, out_file>>

\* mutant: st_mtime and st_ctime stored in each other's field
InsertRecord_SwapTimes(infos, file, info) ==
  [infos EXCEPT ![file] = [sha |-> info.sha, ctime |-> info.mtime, mtime |-> info.ctime]]

\* lines 93-97: files_infos[file.u8string()] = {file_hash, st_ctime, st_mtime}
InsertRecord(infos, file, info) ==
  [infos EXCEPT ![file] = [sha |-> info.sha, ctime |-> info.ctime, mtime |-> info.mtime]]

Insert(w) ==
  /\ Running(w, "w_insert")
  /\ files_infos' = InsertRecord(files_infos, wfile[w], winfo[w])
  /\ wpc' = [wpc EXCEPT ![w] = "w_tick"]
  /\ UNCHANGED <<main_vars, restore, side_vars, hist_vars, disk, spawn_vars, files,
                 ticks, mutex, wfile, winfo, probe_failed, probed, restore_vars, out_file>>

\* lines 98-100: progress_bar.tick(); end of the lock_guard's scope and of the
\* loop body (file, file_info and file_hash go out of scope)
Tick(w) ==
  /\ Running(w, "w_tick")
  /\ ticks' = ticks + 1
  /\ mutex' = NoOwner
  /\ wfile' = [wfile EXCEPT ![w] = NoPath]
  /\ winfo' = [winfo EXCEPT ![w] = DefaultInfos]
  /\ wpc' = [wpc EXCEPT ![w] = "w_lock1"]
  /\ UNCHANGED <<main_vars, restore, side_vars, hist_vars, disk, spawn_vars, files, files_infos,
                 probe_failed, probed, restore_vars, out_file>>

(* ------------------------ main and extract_infos ---------------------- *)

\* mutant: the system mutex is unlocked by hand on the normal path only
Throw_KeepsLock ==
  /\ pc' = "m_catch"
  /\ sys_mutex' = sys_mutex
  /\ ret' = ret

\* an exception reaching main's handler: the stack is unwound first, which
\* destroys the lock_guard on the system mutex if it was constructed
Throw ==
  /\ pc' = "m_catch"
  /\ sys_mutex' = FALSE
  /\ ret' = ret

\* line 341: std::filesystem::exists(path) is true
PathExists ==
  /\ pc = "m_exists"
  /\ path_exists' = "yes"
  /\ pc' = "m_lock"
  /\ UNCHANGED <<ret, sys_mutex, restore, side_vars, sys_acquired, disk, spawn_vars, pool_vars,
                 restore_vars, out_file>>

\* lines 341-342: the directory does not exist
PathMissing ==
  /\ pc = "m_exists"
  /\ path_exists' = "no"
  /\ Throw
  /\ UNCHANGED <<restore, side_vars, sys_acquired, disk, spawn_vars, pool_vars, restore_vars, out_file>>

\* lines 346-347: win::system_mutex mtx; std::lock_guard lock(mtx);
AcquireSystemMutex ==
  /\ pc = "m_lock"
  /\ sys_mutex' = TRUE
  /\ sys_acquired' = sys_acquired + 1
  /\ pc' = "m_traverse"
  /\ UNCHANGED <<ret, restore, side_vars, path_exists, disk, spawn_vars, pool_vars, restore_vars, out_file>>

\* lines 109-119: all_files = files::get_files(...)
Traverse ==
  /\ pc = "m_traverse"
  /\ \E S \in SUBSET Paths : all_files' = SeqOfSet(S, 1)
  /\ pc' = "m_pool"
  /\ UNCHANGED <<ret, sys_mutex, restore, side_vars, hist_vars, disk, nb_threads, next_thread,
                 pool_vars, restore_vars, out_file>>

\* line 134: nb_threads = std::min(files.size(), max_cpu)
NbThreads(size, max_cpu) == Min(size, max_cpu)

\* lines 123-135: the queue is seeded and the threads vector sized;
\* hardware_concurrency() may return 0 when the value is not computable
StartPool ==
  /\ pc = "m_pool"
  /\ IF all_files = <<>>
       THEN /\ pc' = "m_check_empty"
            /\ UNCHANGED <<files, nb_threads>>
       ELSE /\ files' = all_files
            /\ \E max_cpu \in 0..MaxCpu :
                 nb_threads' = NbThreads(Len(all_files), max_cpu)
            /\ pc' = "m_spawn"
  /\ next_thread' = 1
  /\ UNCHANGED <<ret, sys_mutex, restore, side_vars, hist_vars, disk, all_files, files_infos, ticks,
                 mutex, wpc, wfile, winfo, probe_failed, probed, restore_vars, out_file>>

\* lines 136-141: t = std::thread(extract_info, ...)
SpawnThread ==
  /\ pc = "m_spawn"
  /\ next_thread <= nb_threads
  /\ wpc' = [wpc EXCEPT ![next_thread] = "w_lock1"]
  /\ next_thread' = next_thread + 1
  /\ UNCHANGED <<main_vars, restore, side_vars, hist_vars, disk, all_files, nb_threads, files,
                 files_infos, ticks, mutex, wfile, winfo, probe_failed, probed,
                 restore_vars, out_file>>

\* end of the loop of lines 136-141
SpawnDone ==
  /\ pc = "m_spawn"
  /\ next_thread > nb_threads
  /\ next_thread' = 1
  /\ pc' = "m_join"
  /\ UNCHANGED <<ret, sys_mutex, restore, side_vars, hist_vars, disk, all_files, nb_threads,
                 pool_vars, restore_vars, out_file>>

\* mutant: the thread is not waited for
ThreadFinished_NoWait(w) == TRUE

\* t.join() returns once the thread function has returned
ThreadFinished(w) == wpc[w] = "w_done"

\* lines 144-146: t.join()
JoinThread ==
  /\ pc = "m_join"
  /\ next_thread <= nb_threads
  /\ ThreadFinished(next_thread)
  /\ next_thread' = next_thread + 1
  /\ UNCHANGED <<main_vars, restore, side_vars, hist_vars, disk, all_files, nb_threads, files,
                 files_infos, ticks, mutex, wpc, wfile, winfo, probe_failed, probed,
                 restore_vars, out_file>>

\* end of the loop of lines 144-146
JoinDone ==
  /\ pc = "m_join"
  /\ next_thread > nb_threads
  /\ pc' = "m_pool_end"
  /\ UNCHANGED <<ret, sys_mutex, restore, side_vars, hist_vars, disk, spawn_vars, pool_vars,
                 restore_vars, out_file>>

\* line 147: end of the scope of progress_bar, files, mutex and threads (the
\* std::thread objects of the finished threads are destroyed)
PoolEnd ==
  /\ pc = "m_pool_end"
  /\ files' = <<>>
  /\ ticks' = 0
  /\ mutex' = NoOwner
  /\ nb_threads' = 0
  /\ next_thread' = 1
  /\ wpc' = [w \in Workers |-> IF wpc[w] = "w_done" THEN "w_none" ELSE wpc[w]]
  /\ pc' = "m_check_empty"
  /\ UNCHANGED <<ret, sys_mutex, restore, side_vars, hist_vars, disk, all_files, files_infos, wfile,
                 winfo, probe_failed, probed, restore_vars, out_file>>

\* mutant: the test of line 148 is missing
InventoryEmpty_Never(infos) == FALSE

\* line 148: files_infos.empty()
InventoryEmpty(infos) == Keys(infos) = {}

\* lines 148-149 and the test of line 154
CheckEmpty ==
  /\ pc = "m_check_empty"
  /\ IF InventoryEmpty(files_infos)
       THEN Throw
       ELSE /\ pc' = IF restore THEN "m_parse" ELSE "m_write"
            /\ UNCHANGED <<ret, sys_mutex>>
  /\ UNCHANGED <<restore, side_vars, hist_vars, disk, spawn_vars, pool_vars, restore_vars, out_file>>

(* ------------------------------ restore ------------------------------- *)

\* a well-formed entry of the "files" array: any dates with a sha256 a file on
\* the disk can have, and one entry with a sha256 no file on the disk has (its
\* dates are never read, line 190 skips the entry first)
ValidEntries(p) ==
  {[name |-> p, sha |-> i.sha, ctime |-> i.ctime, mtime |-> i.mtime] : i \in DiskInfos}
    \cup {[name |-> p, sha |-> "Y", ctime |-> 100, mtime |-> 100]}

\* an entry of the "files" array that lacks a field
BrokenEntries(p) == {[name |-> p, sha |-> "X", ctime |-> 100]}

\* the "files" arrays the output file can hold: at most one entry per path
\* (the file is written from a std::map), in key order
SavedFiles ==
  UNION {
    { [k \in 1..Len(SeqOfSet(S, 1)) |-> f[SeqOfSet(S, 1)[k]]] :
        f \in { g \in [S -> UNION {ValidEntries(p) \cup BrokenEntries(p) : p \in S}] :
                  \A p \in S : g[p].name = p } }
    : S \in SUBSET Paths }

\* the json values json::parse can return for the output file
SavedDbs == {[kind |-> "object"]} \cup {[kind |-> "object", files |-> fs] : fs \in SavedFiles}

\* lines 159-160: the output file cannot be opened: saved_db stays null
ParseNoFile ==
  /\ pc = "m_parse"
  /\ saved_db' = JsonNull
  /\ pc' = "m_detect"
  /\ UNCHANGED <<ret, sys_mutex, restore, side_vars, hist_vars, disk, spawn_vars, pool_vars,
                 to_update, upd_idx, writes, write_failed, out_file>>

\* line 161: saved_db = json::parse(file)
ParseOk ==
  /\ pc = "m_parse"
  /\ \E db \in SavedDbs : saved_db' = db
  /\ pc' = "m_detect"
  /\ UNCHANGED <<ret, sys_mutex, restore, side_vars, hist_vars, disk, spawn_vars, pool_vars,
                 to_update, upd_idx, writes, write_failed, out_file>>

\* line 161: json::parse throws on a malformed file; exec (lines 61-65) rethrows
ParseThrows ==
  /\ pc = "m_parse"
  /\ Throw
  /\ UNCHANGED <<restore, side_vars, hist_vars, disk, spawn_vars, pool_vars, restore_vars, out_file>>

\* lines 171-174: the entry has its four fields
EntryValid(i) ==
  /\ "name" \in DOMAIN i
  /\ "sha" \in DOMAIN i
  /\ "ctime" \in DOMAIN i
  /\ "mtime" \in DOMAIN i

\* mutant: the checksum test of lines 189-190 is missing
SameFile_IgnoreSha(infos, name, old_sha) == infos[name] # Absent

\* lines 184-190: the file is in files_infos with the saved checksum
SameFile(infos, name, old_sha) ==
  /\ infos[name] # Absent
  /\ ~(infos[name].sha # old_sha)

\* lines 193-199 and 201-207: a date is restored if it changed
DateChanged(new_time, old_time) == new_time # old_time

\* mutant: only ctime is put back
RestoreDates_CtimeOnly(info, old_ctime, old_mtime) ==
  [sha   |-> info.sha,
   ctime |-> IF DateChanged(info.ctime, old_ctime) THEN old_ctime ELSE info.ctime,
   mtime |-> info.mtime]

\* lines 192-207: the entry of files_infos after its dates are restored
RestoreDates(info, old_ctime, old_mtime) ==
  [sha   |-> info.sha,
   ctime |-> IF DateChanged(info.ctime, old_ctime) THEN old_ctime ELSE info.ctime,
   mtime |-> IF DateChanged(info.mtime, old_mtime) THEN old_mtime ELSE info.mtime]

\* mutant: old and new values passed to make_tuple in each other's place
MakeUpdate_SwapOldNew(name, info, old_ctime, old_mtime) ==
  [name      |-> name,
   ctime     |-> DateChanged(info.ctime, old_ctime),
   old_ctime |-> info.ctime,
   new_ctime |-> old_ctime,
   mtime     |-> DateChanged(info.mtime, old_mtime),
   old_mtime |-> info.mtime,
   new_mtime |-> old_mtime]

\* lines 210-212: std::make_tuple(name, ctime, old_ctime, new_ctime,
\*                                mtime, old_mtime, new_mtime)
MakeUpdate(name, info, old_ctime, old_mtime) ==
  [name      |-> name,
   ctime     |-> DateChanged(info.ctime, old_ctime),
   old_ctime |-> old_ctime,
   new_ctime |-> info.ctime,
   mtime     |-> DateChanged(info.mtime, old_mtime),
   old_mtime |-> old_mtime,
   new_mtime |-> info.mtime]

\* line 209: if (ctime || mtime)
NeedsUpdate(u) == u.ctime \/ u.mtime

RECURSIVE DetectChanged(_, _, _)
\* lines 168-213: the loop over saved_db["files"]; yields the updated
\* files_infos and to_update
DetectChanged(entries, infos, upd) ==
  IF entries = <<>> THEN [infos |-> infos, to_update |-> upd]
  ELSE LET i == Head(entries) IN
    IF ~EntryValid(i) THEN DetectChanged(Tail(entries), infos, upd)
    ELSE IF ~SameFile(infos, i.name, i.sha) THEN DetectChanged(Tail(entries), infos, upd)
    ELSE LET u == MakeUpdate(i.name, infos[i.name], i.ctime, i.mtime)
             restored == [infos EXCEPT ![i.name] = RestoreDates(infos[i.name], i.ctime, i.mtime)]
         IN DetectChanged(Tail(entries), restored,
                          IF NeedsUpdate(u) THEN Append(upd, u) ELSE upd)

\* line 166: saved_db.contains("files") && saved_db["files"].is_array()
HasFiles(db) == "files" \in DOMAIN db

\* lines 165-218: detect all files that have changed dates
Detect ==
  /\ pc = "m_detect"
  /\ LET r == IF HasFiles(saved_db)
                THEN DetectChanged(saved_db.files, files_infos, <<>>)
                ELSE [infos |-> files_infos, to_update |-> <<>>]
     IN /\ files_infos' = r.infos
        /\ to_update' = r.to_update
        /\ pc' = IF r.to_update = <<>> THEN "m_write" ELSE "m_restore"
  /\ upd_idx' = 1
  /\ UNCHANGED <<ret, sys_mutex, restore, side_vars, hist_vars, disk, spawn_vars, files, ticks, mutex,
                 wpc, wfile, winfo, probe_failed, probed, saved_db, writes, write_failed,
                 out_file>>

\* mutant: both dates are passed whatever the changed flags say
SetStatArgs_BothDates(file) ==
  [name  |-> file.name,
   ctime |-> file.old_ctime,
   atime |-> 0,
   mtime |-> file.old_mtime]

\* lines 223-226: the arguments of files::set_stat (ctime, atime, mtime)
SetStatArgs(file) ==
  [name  |-> file.name,
   ctime |-> IF file.ctime THEN file.old_ctime ELSE 0,
   atime |-> 0,
   mtime |-> IF file.mtime THEN file.old_mtime ELSE 0]

\* files::set_stat on the file system: a date of 0 is left as it is
SetStat(d, args) ==
  IF d[args.name] = Unread THEN d ELSE
  [d EXCEPT ![args.name] =
     [sha   |-> @.sha,
      ctime |-> IF args.ctime = 0 THEN @.ctime ELSE args.ctime,
      mtime |-> IF args.mtime = 0 THEN @.mtime ELSE args.mtime]]

\* line 221: the loop goes on to the next element, or ends
NextUpdate ==
  /\ upd_idx' = upd_idx + 1
  /\ pc' = IF upd_idx < Len(to_update) THEN "m_restore" ELSE "m_write"
  /\ UNCHANGED <<ret, sys_mutex>>

\* lines 221-228: files::set_stat succeeds
RestoreOk ==
  /\ pc = "m_restore"
  /\ LET args == SetStatArgs(to_update[upd_idx]) IN
       /\ writes' = Append(writes, args)
       /\ disk' = SetStat(disk, args)
  /\ NextUpdate
  /\ UNCHANGED <<restore, side_vars, hist_vars, spawn_vars, pool_vars, saved_db, to_update,
                 write_failed, out_file>>

\* lines 221-228: files::set_stat fails and reports it by its return value,
\* which the call of line 223 discards
RestoreFailsSilently ==
  /\ pc = "m_restore"
  /\ writes' = Append(writes, SetStatArgs(to_update[upd_idx]))
  /\ write_failed' = write_failed \cup {to_update[upd_idx].name}
  /\ NextUpdate
  /\ UNCHANGED <<restore, side_vars, hist_vars, disk, spawn_vars, pool_vars, saved_db, to_update,
                 out_file>>

\* lines 221-228: files::set_stat fails by throwing: nothing catches it
\* before main's handler
RestoreThrows ==
  /\ pc = "m_restore"
  /\ writes' = Append(writes, SetStatArgs(to_update[upd_idx]))
  /\ write_failed' = write_failed \cup {to_update[upd_idx].name}
  /\ Throw
  /\ UNCHANGED <<restore, side_vars, hist_vars, disk, spawn_vars, pool_vars, saved_db, to_update,
                 upd_idx, out_file>>

(* ----------------------------- write json ----------------------------- *)

\* mutant: the loop stops before the last key
JsonEntries_DropLast(infos) ==
  LET keys == SeqOfSet(Keys(infos), 1) IN
    [k \in 1..(Len(keys) - 1) |->
       [name |-> keys[k], sha |-> infos[keys[k]].sha,
        ctime |-> infos[keys[k]].ctime, mtime |-> infos[keys[k]].mtime]]

\* lines 253-264: one entry per key of files_infos, in key order
JsonEntries(infos) ==
  LET keys == SeqOfSet(Keys(infos), 1) IN
    [k \in 1..Len(keys) |->
       [name |-> keys[k], sha |-> infos[keys[k]].sha,
        ctime |-> infos[keys[k]].ctime, mtime |-> infos[keys[k]].mtime]]

\* lines 233-270: the file is opened and the content written
WriteOk ==
  /\ pc = "m_write"
  /\ out_file' = [opened |-> TRUE, files |-> JsonEntries(files_infos)]
  /\ pc' = "m_return"
  /\ UNCHANGED <<ret, sys_mutex, restore, side_vars, hist_vars, disk, spawn_vars, pool_vars, restore_vars>>

\* mutant: the test of line 235 is missing, the failed stream is written to
WriteThrows_Ignored ==
  /\ pc = "m_write"
  /\ pc' = "m_return"
  /\ UNCHANGED <<ret, sys_mutex, restore, side_vars, hist_vars, disk, spawn_vars, pool_vars,
                 restore_vars, out_file>>

\* lines 234-236: the file cannot be opened for writing
WriteThrows ==
  /\ pc = "m_write"
  /\ Throw
  /\ UNCHANGED <<restore, side_vars, hist_vars, disk, spawn_vars, pool_vars, restore_vars, out_file>>

\* lines 273-313 and 351-352: the table is displayed, extract_infos returns,
\* ret = 0 and the lock_guard on the system mutex leaves its scope
Return ==
  /\ pc = "m_return"
  /\ ret' = <<0>>
  /\ sys_mutex' = FALSE
  /\ pc' = "m_done"
  /\ UNCHANGED <<restore, side_vars, hist_vars, disk, spawn_vars, pool_vars, restore_vars, out_file>>

\* lines 353-359: catch (const std::exception& ex)
Catch ==
  /\ pc = "m_catch"
  /\ ret' = <<-1>>
  /\ pc' = "m_done"
  /\ UNCHANGED <<sys_mutex, restore, side_vars, hist_vars, disk, spawn_vars, pool_vars, restore_vars, out_file>>

(* ------------------- the output file as text, and its reload ----------- *)

\* number of path names a written snapshot draws its keys from
NumKeys == 2

\* keys of files_infos as UTF-8 characters, in std::map (byte) order
KeyNames == << <<"a">>,
               <<"s", "\\", "b">>,
               <<"s", "\\", "t", "\\", "c">>,
               <<"u", " ", "v">> >>

\* file_infos::sha values as characters: a digest, or the empty string
ShaTexts == { <<"0", "f">>, <<>> }

\* file_infos::ctime / mtime values
StampValues == {0, 907, 1700000000}

\* the records a files_infos map can hold
TextInfos == [sha : ShaTexts, ctime : StampValues, mtime : StampValues]

\* the non-empty files_infos maps, keyed by index into KeyNames
Snapshots ==
  UNION { [K -> TextInfos] : K \in (SUBSET (1..NumKeys)) \ {{}} }

DigitChars == <<"0", "1", "2", "3", "4", "5", "6", "7", "8", "9">>

RECURSIVE ToDigits(_)
\* fmt::format("{}", v) of an unsigned integer: decimal, no leading zero
ToDigits(n) ==
  IF n < 10 THEN <<DigitChars[n + 1]>>
  ELSE ToDigits(n \div 10) \o <<DigitChars[(n % 10) + 1]>>

RECURSIVE EscapeBackslashes(_)
\* line 259: std::regex_replace(k, std::regex("\\\\"), "\\\\") doubles every
\* backslash and leaves every other character as it is
EscapeBackslashes(k) ==
  IF k = <<>> THEN <<>>
  ELSE (IF Head(k) = "\\" THEN <<"\\", "\\">> ELSE <<Head(k)>>)
         \o EscapeBackslashes(Tail(k))

\* mutant: the key is written as it is
EscapedKey_Raw(k) == k \o <<"\"">>

\* line 259: the escaped key followed by the closing quote
EscapedKey(k) == EscapeBackslashes(k) \o <<"\"">>

RECURSIVE Spaces(_)
Spaces(n) == IF n <= 0 THEN <<>> ELSE <<" ">> \o Spaces(n - 1)

\* fmt's "{:<width}": left-aligned, filled with spaces up to width
PadRight(t, width) == t \o Spaces(width - Len(t))

\* lines 240-243: the longest key
MaxLen(infos) ==
  LET lens == {Len(KeyNames[k]) : k \in DOMAIN infos}
  IN  CHOOSE n \in lens : \A m \in lens : m <= n

\* lines 246-250 and 256-264: one line of the "files" array
EntryLine(infos, k) ==
  <<" ", " ", " ", " ", "{", " ">>
    \o <<"\"", "n", "a", "m", "e", "\"", ":", " ", "\"">>
    \o PadRight(EscapedKey(KeyNames[k]), MaxLen(infos))
    \o <<",", " ">>
    \o <<"\"", "s", "h", "a", "\"", ":", " ", "\"">> \o infos[k].sha \o <<"\"", ",", " ">>
    \o <<"\"", "c", "t", "i", "m", "e", "\"", ":", " ">> \o ToDigits(infos[k].ctime)
    \o <<",", " ">>
    \o <<"\"", "m", "t", "i", "m", "e", "\"", ":", " ">> \o ToDigits(infos[k].mtime)
    \o <<" ", "}">>
    \o (IF \A j \in DOMAIN infos : j <= k THEN <<>> ELSE <<",">>)
    \o <<"\n">>

RECURSIVE EntryLines(_, _)
\* lines 254-266: the loop over files_infos, smallest key first
EntryLines(infos, K) ==
  IF K = {} THEN <<>>
  ELSE LET k == CHOOSE i \in K : \A j \in K : i <= j
       IN  EntryLine(infos, k) \o EntryLines(infos, K \ {k})

\* lines 251-268: the whole content
Content(infos) ==
  <<"{", "\n">>
    \o <<" ", " ", "\"", "f", "i", "l", "e", "s", "\"", ":", " ", "[", "\n">>
    \o EntryLines(infos, DOMAIN infos)
    \o <<" ", " ", "]", "\n">>
    \o <<"}">>

\* json::parse found no valid JSON text
ParseError == [kind |-> "parse_error"]

\* result of a scan that met a character the grammar forbids
Fail == [ok |-> FALSE]

Found(v, t) == [ok |-> TRUE, val |-> v, rest |-> t]

JsonString(s) == [kind |-> "string", s |-> s]
JsonNumber(n) == [kind |-> "number", n |-> n]
JsonArray(items) == [kind |-> "array", items |-> items]
JsonObject(members) == [kind |-> "object", members |-> members]

\* characters a JSON text has to escape inside a string
ControlChars == {"\n", "\r", "\t", "U+0008", "U+000C"}

\* the single-letter escapes and the character each one stands for
ControlEscapes ==
  [c \in {"b", "f", "n", "r", "t"} |->
     CASE c = "b" -> "U+0008"
       [] c = "f" -> "U+000C"
       [] c = "n" -> "\n"
       [] c = "r" -> "\r"
       [] c = "t" -> "\t"]

RECURSIVE SkipWs(_)
SkipWs(t) ==
  IF t # <<>> /\ Head(t) \in {" ", "\n", "\r", "\t"} THEN SkipWs(Tail(t)) ELSE t

RECURSIVE ScanString(_, _)
\* the text after an opening quote, up to the closing quote; a backslash takes
\* the next character with it (\uXXXX, which the writer never emits, is
\* rejected like the letters that name no escape)
ScanString(t, acc) ==
  IF t = <<>> THEN Fail
  ELSE IF Head(t) = "\"" THEN Found(JsonString(acc), Tail(t))
  ELSE IF Head(t) = "\\" THEN
    IF Len(t) < 2 THEN Fail
    ELSE IF t[2] \in {"\"", "\\", "/"}
      THEN ScanString(SubSeq(t, 3, Len(t)), Append(acc, t[2]))
    ELSE IF t[2] \in DOMAIN ControlEscapes
      THEN ScanString(SubSeq(t, 3, Len(t)), Append(acc, ControlEscapes[t[2]]))
    ELSE Fail
  ELSE IF Head(t) \in ControlChars THEN Fail
  ELSE ScanString(Tail(t), Append(acc, Head(t)))

IsDigit(c) == \E d \in 1..10 : DigitChars[d] = c

DigitValue(c) == (CHOOSE d \in 1..10 : DigitChars[d] = c) - 1

RECURSIVE ScanDigits(_, _)
ScanDigits(t, n) ==
  IF t # <<>> /\ IsDigit(Head(t))
    THEN ScanDigits(Tail(t), 10 * n + DigitValue(Head(t)))
    ELSE Found(JsonNumber(n), t)

\* an unsigned integer: a lone 0, or digits that do not start with 0
ScanNumber(t) ==
  IF Head(t) = "0"
    THEN IF Len(t) >= 2 /\ IsDigit(t[2]) THEN Fail ELSE Found(JsonNumber(0), Tail(t))
    ELSE ScanDigits(t, 0)

RECURSIVE ParseValue(_)
RECURSIVE ParseMembers(_, _)
RECURSIVE ParseItems(_, _)

\* one value: a string, an unsigned integer, an array or an object (the
\* values the writer emits; any other text is a parse error)
ParseValue(t0) ==
  LET t == SkipWs(t0)
  IN  IF t = <<>> THEN Fail
      ELSE IF Head(t) = "\"" THEN ScanString(Tail(t), <<>>)
      ELSE IF IsDigit(Head(t)) THEN ScanNumber(t)
      ELSE IF Head(t) = "[" THEN
        IF SkipWs(Tail(t)) # <<>> /\ Head(SkipWs(Tail(t))) = "]"
          THEN Found(JsonArray(<<>>), Tail(SkipWs(Tail(t))))
          ELSE ParseItems(Tail(t), <<>>)
      ELSE IF Head(t) = "{" THEN
        IF SkipWs(Tail(t)) # <<>> /\ Head(SkipWs(Tail(t))) = "}"
          THEN Found(JsonObject(<<>>), Tail(SkipWs(Tail(t))))
          ELSE ParseMembers(SkipWs(Tail(t)), <<>>)
      ELSE Fail

\* "key": value pairs separated by commas, up to the closing brace
ParseMembers(t, acc) ==
  IF t = <<>> \/ Head(t) # "\"" THEN Fail
  ELSE LET key == ScanString(Tail(t), <<>>)
       IN  IF ~key.ok THEN Fail
           ELSE LET c == SkipWs(key.rest)
                IN  IF c = <<>> \/ Head(c) # ":" THEN Fail
                    ELSE LET v == ParseValue(Tail(c))
                         IN  IF ~v.ok THEN Fail
                             ELSE LET r == SkipWs(v.rest)
                                      all == Append(acc, [key |-> key.val.s, val |-> v.val])
                                  IN  IF r = <<>> THEN Fail
                                      ELSE IF Head(r) = "," THEN ParseMembers(SkipWs(Tail(r)), all)
                                      ELSE IF Head(r) = "}" THEN Found(JsonObject(all), Tail(r))
                                      ELSE Fail

\* values separated by commas, up to the closing bracket
ParseItems(t, acc) ==
  LET v == ParseValue(t)
  IN  IF ~v.ok THEN Fail
      ELSE LET r == SkipWs(v.rest)
           IN  IF r = <<>> THEN Fail
               ELSE IF Head(r) = "," THEN ParseItems(Tail(r), Append(acc, v.val))
               ELSE IF Head(r) = "]" THEN Found(JsonArray(Append(acc, v.val)), Tail(r))
               ELSE Fail

\* lines 158-162: json::parse(file): one value, then nothing but whitespace
JsonParse(text) ==
  LET v == ParseValue(text)
  IN  IF v.ok /\ SkipWs(v.rest) = <<>> THEN v.val ELSE ParseError

\* json::contains(key): only an object contains keys
Contains(j, key) ==
  j.kind = "object" /\ \E m \in 1..Len(j.members) : j.members[m].key = key

\* json::operator[](key) of an object that contains key
Member(j, key) ==
  j.members[CHOOSE m \in 1..Len(j.members) : j.members[m].key = key].val

KeyFiles == <<"f", "i", "l", "e", "s">>
KeyName == <<"n", "a", "m", "e">>
KeySha == <<"s", "h", "a">>
KeyCtime == <<"c", "t", "i", "m", "e">>
KeyMtime == <<"m", "t", "i", "m", "e">>

\* lines 171-175: the entry has its four fields, each of the right kind
TextEntryValid(i) ==
  /\ Contains(i, KeyName)  /\ Member(i, KeyName).kind = "string"
  /\ Contains(i, KeySha)   /\ Member(i, KeySha).kind = "string"
  /\ Contains(i, KeyCtime) /\ Member(i, KeyCtime).kind = "number"
  /\ Contains(i, KeyMtime) /\ Member(i, KeyMtime).kind = "number"

\* lines 164-181: name, old_sha, old_ctime and old_mtime of every entry of
\* "files" that passes the validity test
LoadEntries(db) ==
  IF Contains(db, KeyFiles) /\ Member(db, KeyFiles).kind = "array"
    THEN LET items == Member(db, KeyFiles).items
         IN  { [name  |-> Member(items[n], KeyName).s,
                sha   |-> Member(items[n], KeySha).s,
                ctime |-> Member(items[n], KeyCtime).n,
                mtime |-> Member(items[n], KeyMtime).n] :
                 n \in {m \in 1..Len(items) : TextEntryValid(items[m])} }
    ELSE {}

\* a non-empty files_infos map is about to be written
IoInit ==
  /\ io_pc = "io_write"
  /\ io_infos \in Snapshots
  /\ content = <<>>
  /\ io_db = JsonNull
  /\ io_loaded = {}

\* lines 233-269: file << content
IoWrite ==
  /\ io_pc = "io_write"
  /\ content' = Content(io_infos)
  /\ io_pc' = "io_parse"
  /\ UNCHANGED <<io_infos, io_db, io_loaded>>
  /\ UNCHANGED <<prog_vars, cam_vars>>

\* lines 158-162 of the next run: saved_db = json::parse(file)
IoParse ==
  /\ io_pc = "io_parse"
  /\ io_db' = JsonParse(content)
  /\ io_pc' = IF io_db' = ParseError THEN "io_throw" ELSE "io_detect"
  /\ UNCHANGED <<io_infos, content, io_loaded>>
  /\ UNCHANGED <<prog_vars, cam_vars>>

\* lines 164-181 of the next run: the loop over saved_db["files"]
IoLoad ==
  /\ io_pc = "io_detect"
  /\ io_loaded' = LoadEntries(io_db)
  /\ io_pc' = "io_done"
  /\ UNCHANGED <<io_infos, content, io_db>>
  /\ UNCHANGED <<prog_vars, cam_vars>>

(* -------------------- CrossAppMutex (CrossAppMutex.hpp) ---------------- *)

\* number of processes that construct a CrossAppMutex of the same name
NumProcs == 2

Procs == 1..NumProcs

\* no process uses a CrossAppMutex and the named mutex does not exist
CamInit ==
  /\ cam_pc = [p \in Procs |-> "c_none"]
  /\ m_mutex = [p \in Procs |-> FALSE]
  /\ m_owned = [p \in Procs |-> FALSE]
  /\ k_handles = {}
  /\ k_owner = NoOwner
  /\ k_count = 0
  /\ k_abandoned = FALSE

\* lines 10-14: the constructor initialises the members and enters LockMutex
Construct(p) ==
  /\ cam_pc[p] = "c_none"
  /\ m_mutex' = [m_mutex EXCEPT ![p] = FALSE]
  /\ m_owned' = [m_owned EXCEPT ![p] = FALSE]
  /\ cam_pc' = [cam_pc EXCEPT ![p] = "c_create"]
  /\ UNCHANGED <<k_handles, k_owner, k_count, k_abandoned>>
  /\ UNCHANGED <<prog_vars, io_vars>>

\* line 28: CreateMutex(nullptr, true, m_name) returns a handle: the caller
\* that creates the object is its initial owner, the caller that finds it
\* only opens it
CreateMutexOk(p) ==
  /\ cam_pc[p] = "c_create"
  /\ m_mutex' = [m_mutex EXCEPT ![p] = TRUE]
  /\ k_handles' = k_handles \cup {p}
  /\ IF k_handles = {}
       THEN k_owner' = p /\ k_count' = 1 /\ k_abandoned' = FALSE
       ELSE UNCHANGED <<k_owner, k_count, k_abandoned>>
  /\ cam_pc' = [cam_pc EXCEPT ![p] = "c_wait"]
  /\ UNCHANGED m_owned
  /\ UNCHANGED <<prog_vars, io_vars>>

\* lines 28-29: CreateMutex returns NULL, LockMutex does nothing more
CreateMutexFails(p) ==
  /\ cam_pc[p] = "c_create"
  /\ cam_pc' = [cam_pc EXCEPT ![p] = "c_alive"]
  /\ UNCHANGED <<m_mutex, m_owned, k_handles, k_owner, k_count, k_abandoned>>
  /\ UNCHANGED <<prog_vars, io_vars>>

\* WaitForSingleObject(m_mutex, INFINITE) returns once the mutex is free, or
\* at once when the calling thread already owns it
CanAcquire(p) == k_owner \in {NoOwner, p}

\* lines 31-35: the wait gives the caller one more ownership; it returns
\* WAIT_ABANDONED when the previous owner ended without releasing, and only
\* the other return value sets m_owned
WaitForSingleObject(p) ==
  /\ cam_pc[p] = "c_wait"
  /\ CanAcquire(p)
  /\ k_owner' = p
  /\ k_count' = IF k_owner = p THEN k_count + 1 ELSE 1
  /\ k_abandoned' = FALSE
  /\ m_owned' = [m_owned EXCEPT ![p] = ~k_abandoned]
  /\ cam_pc' = [cam_pc EXCEPT ![p] = "c_alive"]
  /\ UNCHANGED <<m_mutex, k_handles>>
  /\ UNCHANGED <<prog_vars, io_vars>>

\* lines 19-22, 43-46: the destructor enters UnlockMutex; with a handle and
\* m_owned it calls ReleaseMutex once, which gives back one ownership
ReleaseMutex(p) ==
  /\ cam_pc[p] = "c_alive"
  /\ IF m_mutex[p] /\ m_owned[p] /\ k_owner = p
       THEN /\ k_count' = k_count - 1
            /\ k_owner' = IF k_count = 1 THEN NoOwner ELSE p
       ELSE UNCHANGED <<k_owner, k_count>>
  /\ cam_pc' = [cam_pc EXCEPT ![p] = "c_close"]
  /\ UNCHANGED <<m_mutex, m_owned, k_handles, k_abandoned>>
  /\ UNCHANGED <<prog_vars, io_vars>>

\* lines 43, 47: CloseHandle(m_mutex) closes the handle; the object goes away
\* with its last handle, an ownership the thread still has stays with it
CloseHandle(p) ==
  /\ cam_pc[p] = "c_close"
  /\ IF m_mutex[p]
       THEN /\ k_handles' = k_handles \ {p}
            /\ IF k_handles = {p}
                 THEN k_owner' = NoOwner /\ k_count' = 0 /\ k_abandoned' = FALSE
                 ELSE UNCHANGED <<k_owner, k_count, k_abandoned>>
       ELSE UNCHANGED <<k_handles, k_owner, k_count, k_abandoned>>
  /\ cam_pc' = [cam_pc EXCEPT ![p] = "c_destroyed"]
  /\ UNCHANGED <<m_mutex, m_owned>>
  /\ UNCHANGED <<prog_vars, io_vars>>

\* the process ends after its CrossAppMutex was destroyed: a mutex its thread
\* still owns becomes abandoned
ProcessExit(p) ==
  /\ cam_pc[p] = "c_destroyed"
  /\ IF k_owner = p
       THEN k_owner' = NoOwner /\ k_count' = 0 /\ k_abandoned' = TRUE
       ELSE UNCHANGED <<k_owner, k_count, k_abandoned>>
  /\ cam_pc' = [cam_pc EXCEPT ![p] = "c_exited"]
  /\ UNCHANGED <<m_mutex, m_owned, k_handles>>
  /\ UNCHANGED <<prog_vars, io_vars>>

(* --------------------------- specification ---------------------------- *)

\* one run of mark-files: nothing is reloaded, no CrossAppMutex is used
Init == MainInit /\ IoIdle /\ CamInit

Next ==
  \/ PathExists
  \/ PathMissing
  \/ AcquireSystemMutex
  \/ Traverse
  \/ StartPool
  \/ SpawnThread
  \/ SpawnDone
  \/ JoinThread
  \/ JoinDone
  \/ PoolEnd
  \/ CheckEmpty
  \/ ParseNoFile
  \/ ParseOk
  \/ ParseThrows
  \/ Detect
  \/ RestoreOk
  \/ RestoreFailsSilently
  \/ RestoreThrows
  \/ WriteOk
  \/ WriteThrows
  \/ Return
  \/ Catch
  \/ \E w \in Workers :
       \/ TakeLock(w)
       \/ TestEmpty(w)
       \/ Front(w)
       \/ Pop(w)
       \/ ProbeOk(w)
       \/ ProbeThrows(w)
       \/ ProbeReturnsDefault(w)
       \/ PublishLock(w)
       \/ Insert(w)
       \/ Tick(w)

Spec == Init /\ [][Next]_vars

\* the steps of the main thread
MainStep ==
  \/ PathExists \/ PathMissing \/ AcquireSystemMutex \/ Traverse \/ StartPool
  \/ SpawnThread \/ SpawnDone \/ JoinThread \/ JoinDone \/ PoolEnd \/ CheckEmpty
  \/ ParseNoFile \/ ParseOk \/ ParseThrows \/ Detect
  \/ RestoreOk \/ RestoreFailsSilently \/ RestoreThrows
  \/ WriteOk \/ WriteThrows \/ Return \/ Catch

\* the steps of one worker thread
WorkerStep(w) ==
  \/ TakeLock(w) \/ TestEmpty(w) \/ Front(w) \/ Pop(w)
  \/ ProbeOk(w) \/ ProbeThrows(w) \/ ProbeReturnsDefault(w)
  \/ PublishLock(w) \/ Insert(w) \/ Tick(w)

\* every thread that can take a step is scheduled eventually
FairSpec ==
  /\ Init /\ [][Next]_vars
  /\ WF_vars(MainStep)
  /\ \A w \in Workers : WF_vars(WorkerStep(w))

\* the steps of the main thread up to the end of the pool's scope
BuildStep ==
  \/ PathExists \/ PathMissing \/ AcquireSystemMutex \/ Traverse \/ StartPool
  \/ SpawnThread \/ SpawnDone \/ JoinThread \/ JoinDone \/ PoolEnd

\* one run up to line 147, where the pool's scope ends
BuildNext == BuildStep \/ \E w \in Workers : WorkerStep(w)

\* a run without --restore: the flag is not read before line 154
BuildInit == Init /\ ~restore

\* the build phase, every thread that can take a step being scheduled eventually
BuildFairSpec ==
  /\ BuildInit /\ [][BuildNext]_vars
  /\ WF_vars(BuildStep)
  /\ \A w \in Workers : WF_vars(WorkerStep(w))

\* the output file of one run read back by the next run
RoundTripInit == MainInit /\ IoInit /\ CamInit

RoundTripNext == IoWrite \/ IoParse \/ IoLoad

RoundTripSpec == RoundTripInit /\ [][RoundTripNext]_vars

\* processes that each construct and destroy one CrossAppMutex of one name
CrossAppInit == MainInit /\ IoIdle /\ CamInit

CrossAppNext ==
  \E p \in Procs :
    \/ Construct(p)
    \/ CreateMutexOk(p)
    \/ CreateMutexFails(p)
    \/ WaitForSingleObject(p)
    \/ ReleaseMutex(p)
    \/ CloseHandle(p)
    \/ ProcessExit(p)

CrossAppSpec == CrossAppInit /\ [][CrossAppNext]_vars

(* ------------------------------ properties ---------------------------- *)

Range(seq) == {seq[k] : k \in 1..Len(seq)}

\* the well-formed entries of the saved database: the prior snapshot
Prior == IF HasFiles(saved_db)
           THEN {i \in Range(saved_db.files) : EntryValid(i)}
           ELSE {}

PriorNames == {i.name : i \in Prior}

\* the restoration records
Restorations == Range(to_update)

\* the worker is inside a critical section: take_next (lines 79-84) or
\* publish (lines 92-99)
InTakeNext(w) == wpc[w] \in {"w_empty", "w_front", "w_pop"}
InPublish(w) == wpc[w] \in {"w_insert", "w_tick"}

\* C1: with no probe failure, once every worker has been joined the result
\* table holds exactly one record per input path, equal to that path's probe
\* result, for every worker count from 1 to K and every interleaving (so the
\* table is a function of the paths and the file system only).
C1_PoolResult ==
  (pc = "m_pool_end" /\ nb_threads >= 1 /\ probe_failed = {}) =>
    /\ Keys(files_infos) = Range(all_files)
    /\ \A p \in Range(all_files) :
         /\ probed[p] \in DiskInfos
         /\ files_infos[p] = probed[p]

C1_Witness ==
  /\ pc = "m_pool_end"
  /\ nb_threads = 2
  /\ Len(all_files) = 2
  /\ probe_failed = {}
  /\ files_infos[all_files[1]] # files_infos[all_files[2]]
  /\ files_infos[all_files[1]].ctime # files_infos[all_files[1]].mtime

\* C2: at most one worker is inside a critical section (take_next or publish),
\* and the worker inside it owns the mutex.
C2_MutualExclusion ==
  /\ Cardinality({w \in Workers : InTakeNext(w) \/ InPublish(w)}) <= 1
  /\ \A w \in Workers : (InTakeNext(w) \/ InPublish(w)) => mutex = w

C2_Witness ==
  \E w1, w2 \in Workers :
    /\ w1 # w2
    /\ InPublish(w1)
    /\ wpc[w2] = "w_lock1"
    /\ files # <<>>

\* C3: after the restore step, when every timestamp write succeeded, for every
\* path in both the current and the prior snapshot: equal fingerprints give
\* the prior ctime and mtime, different fingerprints the probed ctime and mtime.
C3_RestorationCorrect ==
  (pc = "m_write" /\ restore /\ write_failed = {}) =>
    \A i \in Prior :
      files_infos[i.name] # Absent =>
        IF files_infos[i.name].sha = i.sha
          THEN /\ files_infos[i.name].ctime = i.ctime
               /\ files_infos[i.name].mtime = i.mtime
          ELSE /\ files_infos[i.name].ctime = probed[i.name].ctime
               /\ files_infos[i.name].mtime = probed[i.name].mtime

C3_Witness ==
  /\ pc = "m_write"
  /\ restore
  /\ write_failed = {}
  /\ Len(writes) = 1
  /\ \E i \in Prior :
       /\ files_infos[i.name] # Absent
       /\ files_infos[i.name].sha = i.sha
       /\ probed[i.name].ctime # i.ctime
       /\ probed[i.name].mtime # i.mtime
  /\ \E i \in Prior :
       /\ files_infos[i.name] # Absent
       /\ files_infos[i.name].sha # i.sha
       /\ probed[i.name].ctime # i.ctime
       /\ probed[i.name].mtime # i.mtime

\* C4: a restoration record exists for a path only if the path is in the
\* current and in the prior snapshot with equal fingerprints and a ctime or
\* mtime that differs between the probe and the prior snapshot.
C4_NoFalseRestore ==
  \A u \in Restorations :
    /\ files_infos[u.name] # Absent
    /\ \E i \in Prior :
         /\ i.name = u.name
         /\ i.sha = probed[u.name].sha
         /\ (i.ctime # probed[u.name].ctime \/ i.mtime # probed[u.name].mtime)

C4_Witness ==
  /\ pc = "m_restore"
  /\ Len(to_update) = 1
  /\ \E i \in Prior :
       /\ files_infos[i.name] # Absent
       /\ i.sha # probed[i.name].sha
       /\ i.ctime # probed[i.name].ctime
       /\ i.mtime # probed[i.name].mtime

\* C5: a path of the current snapshot that the prior snapshot lacks is in no
\* restoration record, and the written snapshot has exactly the probed paths
\* as keys (so a path only the prior snapshot has is not in it).
C5_NewAndRemoved ==
  /\ \A u \in Restorations : u.name \in PriorNames
  /\ out_file.opened =>
       /\ {e.name : e \in Range(out_file.files)} = {p \in Paths : probed[p] # Unread}
       /\ Len(out_file.files) = Cardinality({p \in Paths : probed[p] # Unread})

C5_Witness ==
  /\ pc = "m_return"
  /\ restore
  /\ out_file.opened
  /\ PriorNames \ Keys(files_infos) # {}
  /\ Keys(files_infos) \ PriorNames # {}

\* C6: every restoration record has, for ctime and for mtime, a changed flag
\* that is true exactly when the prior and the probed value differ, the prior
\* value as old value and the probed value as new value.
C6_RecordFields ==
  \A u \in Restorations :
    \A i \in Prior :
      i.name = u.name =>
        /\ u.ctime = (i.ctime # probed[u.name].ctime)
        /\ u.old_ctime = i.ctime
        /\ u.new_ctime = probed[u.name].ctime
        /\ u.mtime = (i.mtime # probed[u.name].mtime)
        /\ u.old_mtime = i.mtime
        /\ u.new_mtime = probed[u.name].mtime

C6_Witness ==
  /\ Len(to_update) = 1
  /\ to_update[1].ctime
  /\ to_update[1].old_ctime = 100
  /\ to_update[1].new_ctime = 200
  /\ ~to_update[1].mtime
  /\ \E i \in Prior :
       i.name = to_update[1].name /\ i.ctime = 100 /\ i.mtime = 100

\* C7: the k-th call of the timestamp writer is for the k-th restoration
\* record; it passes the prior value for a field whose prior and probed values
\* differ and 0 for a field whose values are equal; without --restore there is
\* no call.
C7_WriterArguments ==
  /\ ~restore => writes = <<>>
  /\ Len(writes) <= Len(to_update)
  /\ \A k \in 1..Len(writes) :
       /\ writes[k].name = to_update[k].name
       /\ \A i \in Prior :
            i.name = writes[k].name =>
              /\ writes[k].ctime = IF i.ctime # probed[i.name].ctime THEN i.ctime ELSE 0
              /\ writes[k].mtime = IF i.mtime # probed[i.name].mtime THEN i.mtime ELSE 0

C7_Witness ==
  /\ Len(writes) = 2
  /\ writes[1].ctime # 0
  /\ writes[1].mtime = 0
  /\ writes[2].ctime = 0
  /\ writes[2].mtime # 0
  /\ write_failed = {}

\* C8: a failed timestamp write is not fatal: the restore loop still runs to
\* its end (the remaining restorations are attempted), so the run never
\* reaches main's handler from inside the loop.
C8_RestoreFailureNotFatal ==
  (write_failed # {} /\ pc \in {"m_catch", "m_done"}) => upd_idx > Len(to_update)

\* C9: a file whose timestamp write failed keeps its probed ctime and mtime in
\* the current snapshot and has no restoration record.
C9_FailedRestoreNotReflected ==
  \A p \in write_failed :
    /\ files_infos[p] = probed[p]
    /\ \A u \in Restorations : u.name # p

\* C10: a probe failure is recovered locally: the process is not terminated
\* by it and the file is absent from the snapshot.
C10_ProbeFailureSkipped ==
  /\ pc # "m_terminated"
  /\ \A p \in probe_failed : files_infos[p] = Absent

\* positions of the main thread inside extract_infos
InPipeline ==
  pc \in {"m_traverse", "m_pool", "m_spawn", "m_join", "m_pool_end",
          "m_check_empty", "m_parse", "m_detect", "m_restore", "m_write",
          "m_return"}

\* positions of the main thread after the worker pool
AfterPool ==
  pc \in {"m_check_empty", "m_parse", "m_detect", "m_restore", "m_write", "m_return"}

\* C11: with an empty inventory (no file traversed, or no record published)
\* the run ends with the handler's return value -1, and it never parses the
\* saved database, calls the timestamp writer or opens the output file.
C11_EmptyInventoryFatal ==
  (path_exists = "yes" /\ Keys(files_infos) = {}) =>
    /\ pc \notin {"m_parse", "m_detect", "m_restore", "m_write", "m_return"}
    /\ saved_db = JsonNull
    /\ writes = <<>>
    /\ ~out_file.opened
    /\ pc = "m_done" => ret = <<-1>>

C11_Witness ==
  /\ pc = "m_done"
  /\ path_exists = "yes"
  /\ sys_acquired = 1
  /\ all_files = <<>>
  /\ ret = <<-1>>

\* C12: loading the prior snapshot is never a hard failure: the step that
\* parses the json file always continues with the detection step.
C12_PriorLoadNeverFatal == [][pc = "m_parse" => pc' = "m_detect"]_vars

\* C13: main returns 0 exactly when the output file was written and -1
\* otherwise; a missing root directory, an empty inventory and an output file
\* that cannot be opened all end in main's handler with -1, and with a missing
\* root directory nothing of the pipeline has run.
C13_ExitCodes ==
  /\ ret = <<0>> => (pc = "m_done" /\ out_file.opened)
  /\ pc = "m_done" =>
       /\ ret \in {<<0>>, <<-1>>}
       /\ (ret = <<0>>) <=> out_file.opened
       /\ Keys(files_infos) = {} => ret = <<-1>>
  /\ path_exists = "no" =>
       /\ pc \in {"m_catch", "m_done"}
       /\ sys_acquired = 0
       /\ all_files = <<>>
       /\ \A p \in Paths : probed[p] = Unread
       /\ writes = <<>>
       /\ ~out_file.opened

C13_Witness ==
  /\ pc = "m_done"
  /\ ret = <<-1>>
  /\ to_update # <<>>
  /\ upd_idx > Len(to_update)
  /\ write_failed = {}
  /\ ~out_file.opened

\* C15: the system mutex is locked once, before the traversal, stays locked
\* as long as the main thread is inside extract_infos (and so while any worker
\* runs), and is unlocked when main's handler runs, when main returns and when
\* the process is terminated.
C15_SystemLockHeld ==
  /\ sys_acquired <= 1
  /\ InPipeline => (sys_mutex /\ sys_acquired = 1)
  /\ pc \in {"m_exists", "m_lock", "m_catch", "m_done", "m_terminated"} => ~sys_mutex

C15_Witness ==
  /\ pc = "m_catch"
  /\ sys_acquired = 1
  /\ write_failed # {}
  /\ ~sys_mutex

\* C16: for a non-empty path list at least one worker is spawned, and at most
\* one per path, whatever hardware_concurrency() reports.
C16_AtLeastOneWorker ==
  pc = "m_spawn" => (nb_threads >= 1 /\ nb_threads <= Len(all_files))

\* the path is in the pending queue
Pending(p) == p \in Range(files)

\* the worker has taken the path and not published it yet
Holds(w, p) == wfile[w] = p /\ wpc[w] \in {"w_probe", "w_lock2", "w_insert"}

\* the path has a record in the result table
Published(p) == files_infos[p] # Absent

\* the worker thread exists and its function has not returned
WorkerRunning(w) == wpc[w] \notin {"w_none", "w_done"}

\* C17: the build terminates: once the pool is started every worker leaves
\* its loop and the joins complete (or a probe does not return normally and the
\* process is terminated); the queue never grows while the pool runs.
C17_PoolTerminates ==
  /\ [][(pc \in {"m_spawn", "m_join"}) => (Len(files') <= Len(files))]_vars
  /\ (pc = "m_spawn") ~> (pc \in {"m_pool_end", "m_terminated"})

C17_Witness ==
  /\ pc = "m_pool_end"
  /\ nb_threads = 2
  /\ Cardinality(Keys(files_infos)) = 2
  /\ \A w \in Workers : wpc[w] = "w_done"

\* C18: whenever the main thread is past the joins (emptiness test, restore
\* step, write) no worker thread is running.
C18_JoinBeforeRead ==
  (pc = "m_pool_end" \/ AfterPool) => \A w \in Workers : ~WorkerRunning(w)

C18_Witness ==
  /\ pc = "m_check_empty"
  /\ Cardinality(Keys(files_infos)) = 2
  /\ probe_failed = {}
  /\ \A w \in Workers : wpc[w] = "w_none"

\* C19: while the pool runs and no probe has failed, every input path is in
\* exactly one place: pending in the queue (once), held by exactly one worker,
\* or published; no two workers hold the same path; and the number of ticks
\* is the number of published records whenever the mutex is free.
C19_PoolInvariant ==
  (pc \in {"m_spawn", "m_join", "m_pool_end"} /\ probe_failed = {}) =>
    /\ \A p \in Range(all_files) :
         /\ Cardinality({k \in 1..Len(files) : files[k] = p})
              + Cardinality({w \in Workers : Holds(w, p)})
              + (IF Published(p) THEN 1 ELSE 0) = 1
    /\ \A p \in Paths \ Range(all_files) :
         ~Pending(p) /\ ~Published(p) /\ \A w \in Workers : wfile[w] # p
    /\ \A w1, w2 \in Workers :
         (w1 # w2 /\ wfile[w1] # NoPath) => wfile[w1] # wfile[w2]
    /\ mutex = NoOwner => ticks = Cardinality(Keys(files_infos))

C19_Witness ==
  /\ pc = "m_join"
  /\ probe_failed = {}
  /\ mutex = NoOwner
  /\ ticks = 1
  /\ \E w1, w2 \in Workers, p1, p2 \in Paths :
       /\ Holds(w1, p1)
       /\ wpc[w2] = "w_lock1"
       /\ Published(p2)

\* the entries of a files_infos map, as name/sha/ctime/mtime
SnapshotEntries(infos) ==
  { [name |-> KeyNames[k], sha |-> infos[k].sha,
     ctime |-> infos[k].ctime, mtime |-> infos[k].mtime] : k \in DOMAIN infos }

\* C14: reading back the file written for a non-empty snapshot never fails to
\* parse, and the entries the restore loop reads from it are exactly the
\* snapshot's (name, sha, ctime, mtime) entries: none lost, added or altered
C14_RoundTrip ==
  /\ io_pc # "io_throw"
  /\ io_pc = "io_done" => io_loaded = SnapshotEntries(io_infos)

\* a snapshot of two keys of different lengths, one with a backslash, one
\* record with an empty sha and a zero date, has been written and reloaded
C14_Witness ==
  /\ io_pc = "io_done"
  /\ DOMAIN io_infos = {1, 2}
  /\ io_infos[1].sha = <<>> /\ io_infos[1].ctime = 0
  /\ io_infos[2].sha # <<>> /\ io_infos[2].mtime = 1700000000
  /\ Cardinality(io_loaded) = 2

\* C20: every ownership of the named mutex a process took while constructing
\* its CrossAppMutex is given back by the destructor: once the object is
\* destroyed, the process no longer owns the mutex, so that a process waiting
\* on the same name can acquire it while the former holder keeps running
C20_ReleasedOnDestroy ==
  \A p \in Procs : cam_pc[p] = "c_destroyed" => k_owner # p

====
